---- MODULE Spec2Model ----
(***************************************************************************)
(* keras_core/saving/saving_api.py: the format dispatch of save_model,     *)
(* load_model and load_weights.                                            *)
(*                                                                         *)
(* A path is a record [loc, name]: loc is where the file lives, name is    *)
(* its basename as a sequence of tokens, so that str(path).endswith(...)   *)
(* is a real suffix test (".weights.h5" does end with ".h5").              *)
(* The backends (saving_lib, legacy_h5_format), file_utils, io_utils and   *)
(* logging are collaborators: every call made to them is appended to the   *)
(* calling process's trace with the arguments the code passes.             *)
(***************************************************************************)
EXTENDS Naturals, Sequences, FiniteSets

VARIABLES
    pc,            \* per call slot: "idle", "stage", "reprobe", "dispatch", "done"
                   \* ("done": the call has returned or raised, its result is visible)
    req,           \* per call slot: the arguments of the call in progress
    filepath,      \* load_model's local variable filepath (rebound at line 173)
    is_keras_zip,  \* load_model's local variable is_keras_zip
    trace,         \* per call slot: collaborator calls made so far, in order
    outcome,       \* per call slot: "running", "returned" or the error raised
    applied,       \* load_weights: layer positions whose weights were overwritten
    tmp,           \* saving_lib.get_temp_dir(): basename -> bytes staged there
    h5py           \* module attribute h5py (lines 12-15): TRUE iff the import worked

vars == <<pc, req, filepath, is_keras_zip, trace, outcome, applied, tmp, h5py>>

(***************************************************************************)
(* Bounds                                                                  *)
(***************************************************************************)
\* number of distinct basenames the temp directory may hold at once
MaxStaged == 1
\* number of layers of the model handed to load_weights
MaxLayers == 2

(***************************************************************************)
(* Paths, bytes, call slots                                                *)
(***************************************************************************)
Proc == {"A", "B"}
MainProc == "A"

NameKeras == <<"m", ".keras">>
NameH5 == <<"m", ".h5">>
NameHdf5 == <<"m", ".hdf5">>
NameWeightsH5 == <<"m", ".weights", ".h5">>
NameZip == <<"m", ".zip">>
Names == {NameKeras, NameH5, NameHdf5, NameWeightsH5, NameZip}

\* "gsA" and "gsB" are two remote buckets; "mnt" is a remote filesystem that
\* is also mounted, so that open() works on its paths; "tmp" is the temp dir.
RemoteLocs == {"gsA", "gsB", "mnt"}
Locs == {"local"} \cup RemoteLocs

Path(loc, name) == [loc |-> loc, name |-> name]
Paths == {Path(l, n) : l \in Locs, n \in Names}

\* what a path holds: two distinct valid zip containers, an HDF5 file, other
\* bytes, a directory, or nothing.
ZipBytes == {"zip1", "zip2"}
FileBytes == ZipBytes \cup {"h5", "junk"}
Bytes == FileBytes \cup {"dir", "absent"}

Event(kind, path, arg, arg2) ==
    [kind |-> kind, path |-> path, arg |-> arg, arg2 |-> arg2]

B2S(b) == IF b THEN "true" ELSE "false"

NoReq == [op |-> "none"]
NoPath == Path("none", <<>>)

(***************************************************************************)
(* Pure helpers                                                            *)
(***************************************************************************)
\* str(filepath).endswith(suffix)
endswith(path, suffix) ==
    /\ Len(path.name) >= Len(suffix)
    /\ SubSeq(path.name, Len(path.name) - Len(suffix) + 1, Len(path.name)) = suffix

\* str(filepath).endswith((".h5", ".hdf5"))
endswith_h5(path) == endswith(path, <<".h5">>) \/ endswith(path, <<".hdf5">>)

\* zipfile.is_zipfile(path): open() the path and look for the zip end record;
\* any OSError (a bucket URL, a directory, a missing file) gives False.
is_zipfile(path, bytes) ==
    /\ path.loc \in {"local", "tmp", "mnt"}
    /\ bytes \in ZipBytes

\* file_utils.is_remote_path(filepath)
is_remote_path(path) == path.loc \in RemoteLocs

\* file_utils.isdir(filepath)
isdir(bytes) == bytes = "dir"

\* line 154: is_keras_zip = str(filepath).endswith(".keras") and is_zipfile(filepath)
probe_is_keras_zip(path, bytes) ==
    endswith(path, <<".keras">>) /\ is_zipfile(path, bytes)

\* lines 159-163: the condition under which load_model stages the source
needs_staging(path, bytes, iz) ==
    is_remote_path(path) /\ ~isdir(bytes) /\ ~iz

\* lines 164-166: os.path.join(get_temp_dir(), os.path.basename(filepath))
local_path(path) == Path("tmp", path.name)

\* the copy made with overwrite=False: a stale file of that basename stays
copy_keep_existing(old, new) == IF old = "absent" THEN new ELSE old

\* line 169: file_utils.copy(src, dst, overwrite=True): what dst holds afterwards
copy_overwrite(old, new) == new

\* the dispatch with the .keras suffix falling through to the legacy reader
load_dispatch_fallback(path, iz) ==
    IF iz THEN "archive_read"
    ELSE IF endswith_h5(path) \/ endswith(path, <<".keras">>) THEN "legacy_read"
    ELSE "UnsupportedFormat"

\* lines 176-198: which branch load_model ends in
load_dispatch(path, iz) ==
    IF iz THEN "archive_read"
    ELSE IF endswith_h5(path) THEN "legacy_read"
    ELSE IF endswith(path, <<".keras">>) THEN "CorruptArchive"
    ELSE "UnsupportedFormat"

(***************************************************************************)
(* Initial state                                                           *)
(***************************************************************************)
Init ==
    /\ pc = [p \in Proc |-> "idle"]
    /\ req = [p \in Proc |-> NoReq]
    /\ filepath = [p \in Proc |-> NoPath]
    /\ is_keras_zip = [p \in Proc |-> FALSE]
    /\ trace = [p \in Proc |-> <<>>]
    /\ outcome = [p \in Proc |-> "returned"]
    /\ applied = [p \in Proc |-> {}]
    /\ tmp = [n \in Names |-> "absent"]
    /\ h5py \in BOOLEAN

(***************************************************************************)
(* load_model (lines 118-198), one action per blocking I/O step            *)
(***************************************************************************)
InFlight(q) == pc[q] \in {"stage", "reprobe", "dispatch"}

\* basenames that are in the temp directory or about to be copied there
StagedNames ==
    {n \in Names : tmp[n] # "absent"}
        \cup {req[q].path.name : q \in {r \in Proc : pc[r] = "stage"}}

\* the bytes a read of path fp by call p sees
bytes_at(p, fp) == IF fp.loc = "tmp" THEN tmp[fp.name] ELSE req[p].bytes

\* lines 154-163: entry, first probe, staging decision
load_model_call(p, paths, contents) ==
    /\ pc[p] = "idle"
    /\ \E path \in paths, bytes \in contents :
        LET iz == probe_is_keras_zip(path, bytes)
            st == needs_staging(path, bytes, iz)
        IN  \* a file does not change while another call is reading it
            /\ \A q \in Proc \ {p} :
                   (InFlight(q) /\ req[q].path = path) => req[q].bytes = bytes
            /\ st => Cardinality(StagedNames \cup {path.name}) <= MaxStaged
            /\ req' = [req EXCEPT ![p] =
                          [op |-> "load_model", path |-> path, bytes |-> bytes]]
            /\ filepath' = [filepath EXCEPT ![p] = path]
            /\ is_keras_zip' = [is_keras_zip EXCEPT ![p] = iz]
            /\ trace' = [trace EXCEPT ![p] = <<>>]
            /\ outcome' = [outcome EXCEPT ![p] = "running"]
            /\ applied' = [applied EXCEPT ![p] = {}]
            /\ pc' = [pc EXCEPT ![p] = IF st THEN "stage" ELSE "dispatch"]
    /\ UNCHANGED <<tmp, h5py>>

\* lines 164-169: copy the remote file into the temp directory
load_model_copy(p) ==
    /\ pc[p] = "stage"
    /\ IF req[p].bytes = "absent"
       THEN \* the copy raises; the exception leaves load_model
            /\ outcome' = [outcome EXCEPT ![p] = "IOError"]
            /\ pc' = [pc EXCEPT ![p] = "done"]
            /\ UNCHANGED <<tmp, trace>>
       ELSE /\ tmp' = [tmp EXCEPT ![local_path(req[p].path).name] =
                          copy_overwrite(@, req[p].bytes)]
            /\ trace' = [trace EXCEPT ![p] =
                  Append(@, Event("copy", req[p].path, "overwrite",
                                  local_path(req[p].path).loc))]
            /\ pc' = [pc EXCEPT ![p] = "reprobe"]
            /\ UNCHANGED outcome
    /\ UNCHANGED <<req, filepath, is_keras_zip, applied, h5py>>

\* lines 172-174: probe the staged copy
load_model_reprobe(p) ==
    /\ pc[p] = "reprobe"
    /\ LET lp == local_path(req[p].path)
       IN  IF is_zipfile(lp, tmp[lp.name])
           THEN /\ filepath' = [filepath EXCEPT ![p] = lp]
                /\ is_keras_zip' = [is_keras_zip EXCEPT ![p] = TRUE]
           ELSE UNCHANGED <<filepath, is_keras_zip>>
    /\ pc' = [pc EXCEPT ![p] = "dispatch"]
    /\ UNCHANGED <<req, trace, outcome, applied, tmp, h5py>>

\* lines 176-198: hand the file to a backend or raise
load_model_dispatch(p) ==
    /\ pc[p] = "dispatch"
    /\ LET d == load_dispatch(filepath[p], is_keras_zip[p])
       IN  IF d = "archive_read"
           THEN /\ trace' = [trace EXCEPT ![p] =
                      Append(@, Event("archive_read", filepath[p],
                                      bytes_at(p, filepath[p]), "-"))]
                /\ outcome' = [outcome EXCEPT ![p] = "returned"]
           ELSE IF d = "legacy_read"
           THEN /\ trace' = [trace EXCEPT ![p] =
                      Append(@, Event("legacy_read", filepath[p], "-", "-"))]
                /\ outcome' = [outcome EXCEPT ![p] = "returned"]
           ELSE /\ outcome' = [outcome EXCEPT ![p] = d]
                /\ UNCHANGED trace
    /\ pc' = [pc EXCEPT ![p] = "done"]
    /\ UNCHANGED <<req, filepath, is_keras_zip, applied, tmp, h5py>>

(***************************************************************************)
(* save_model (lines 21-112), one atomic call                              *)
(***************************************************************************)
SaveFormats == {"absent", "h5", "keras"}
ExistsChecks == {"yes", "no", "TypeError"}

\* the check with the value compared with the extension
save_format_check_by_value(path, save_format) ==
    IF save_format = "absent" THEN "skip"
    ELSE IF \/ save_format = "h5" /\ endswith_h5(path)
            \/ save_format = "keras" /\ endswith(path, <<".keras">>)
         THEN "warn"
    ELSE "raise"

\* lines 56-73: "skip" when save_format is not given, else warn or raise
save_format_check(path, save_format) ==
    IF save_format = "absent" THEN "skip"
    ELSE IF endswith_h5(path) \/ endswith(path, <<".keras">>) THEN "warn"
    ELSE "raise"

\* lines 91-94: os.path.exists(filepath), a TypeError counting as False
os_path_exists(check) == check = "yes"

\* the guard asking whenever the destination exists
needs_prompt_ignoring_overwrite(exists, overwrite) == exists

\* line 95: if exists and not overwrite
needs_prompt(exists, overwrite) == exists /\ ~overwrite

\* lines 89, 100, 104: the branch chosen from the destination's suffix
save_dispatch(path) ==
    IF endswith(path, <<".keras">>) THEN "archive_write"
    ELSE IF endswith_h5(path) THEN "legacy_write"
    ELSE "UnsupportedFormat"

\* line 99: saving_lib.save_model(model, filepath)
archive_write_call(path, overwrite, include_optimizer) ==
    Event("archive_write", path, "not_passed", "not_passed")

\* lines 101-103: save_model_to_hdf5(model, filepath, overwrite, include_optimizer)
legacy_write_call(path, overwrite, include_optimizer) ==
    Event("legacy_write", path, B2S(include_optimizer), B2S(overwrite))

\* lines 55-112: the trace and the outcome of one save_model call
save_model_result(path, overwrite, check, include_optimizer, save_format, extra, answer) ==
    LET sfc == save_format_check(path, save_format)
        t1 == IF sfc = "warn"
              THEN <<Event("warning", path, "save_format_deprecated", save_format)>>
              ELSE <<>>
        t2 == IF endswith_h5(path)
              THEN Append(t1, Event("warning", path, "legacy_format", "-"))
              ELSE t1
        d == save_dispatch(path)
        ask == needs_prompt(os_path_exists(check), overwrite)
        t3 == IF ask
              THEN Append(t2, Event("prompt", path, B2S(answer), "-"))
              ELSE t2
    IN  IF sfc = "raise"
        THEN [trace |-> t1, outcome |-> "DeprecatedArgument"]
        ELSE IF extra
        THEN [trace |-> t1, outcome |-> "InvalidArgument"]
        ELSE IF d = "archive_write"
        THEN IF ask /\ ~answer
             THEN [trace |-> t3, outcome |-> "returned"]
             ELSE [trace |-> Append(t3, archive_write_call(path, overwrite,
                                                           include_optimizer)),
                   outcome |-> "returned"]
        ELSE IF d = "legacy_write"
        THEN [trace |-> Append(t2, legacy_write_call(path, overwrite,
                                                     include_optimizer)),
              outcome |-> "returned"]
        ELSE [trace |-> t2, outcome |-> "UnsupportedFormat"]

save_model(p) ==
    /\ pc[p] = "idle"
    /\ \E name \in Names, overwrite \in BOOLEAN, check \in ExistsChecks,
          include_optimizer \in BOOLEAN, save_format \in SaveFormats,
          extra \in BOOLEAN, answer \in BOOLEAN :
        LET path == Path("local", name)
            r == save_model_result(path, overwrite, check, include_optimizer,
                                   save_format, extra, answer)
        IN  /\ req' = [req EXCEPT ![p] =
                          [op |-> "save_model", path |-> path,
                           overwrite |-> overwrite, check |-> check,
                           include_optimizer |-> include_optimizer,
                           save_format |-> save_format, extra |-> extra]]
            /\ trace' = [trace EXCEPT ![p] = r.trace]
            /\ outcome' = [outcome EXCEPT ![p] = r.outcome]
    /\ pc' = [pc EXCEPT ![p] = "done"]
    /\ applied' = [applied EXCEPT ![p] = {}]
    /\ UNCHANGED <<filepath, is_keras_zip, tmp, h5py>>

(***************************************************************************)
(* load_weights (lines 201-236), one atomic call                           *)
(***************************************************************************)
Layers == 1..MaxLayers
Shapes == {"s1", "s2"}
\* the live model's parameters, one descriptor per layer position
ModelShapes == [i \in Layers |-> "s1"]
\* the keyword arguments a caller may add; by_name, when given, is True
KwargSets == SUBSET {"by_name", "foo"}

\* legacy_h5_format.load_weights_from_hdf5_group(f, model): strict pairing by
\* position, it has no skip parameter; weights before the first mismatch stay
\* applied.
load_weights_from_hdf5_group(f, m) ==
    LET bad == {i \in Layers : f[i] # m[i]}
        first == CHOOSE i \in bad : \A j \in bad : i <= j
    IN  IF bad = {}
        THEN [applied |-> Layers, outcome |-> "returned"]
        ELSE [applied |-> {i \in Layers : i < first}, outcome |-> "ShapeMismatch"]

\* legacy_h5_format.load_weights_from_hdf5_group_by_name(f, model, skip_mismatch)
load_weights_from_hdf5_group_by_name(f, m, skip_mismatch) ==
    LET bad == {i \in Layers : f[i] # m[i]}
    IN  IF skip_mismatch
        THEN [applied |-> Layers \ bad, outcome |-> "returned"]
        ELSE load_weights_from_hdf5_group(f, m)

\* lines 202, 208, 214, 231: the branch chosen from the suffix, in test order
weights_dispatch(path) ==
    IF endswith(path, <<".keras">>) THEN "archive_weights"
    ELSE IF endswith(path, <<".weights", ".h5">>) THEN "archive_weights"
    ELSE IF endswith(path, <<".h5">>) \/ endswith(path, <<".hdf5">>) THEN "legacy_weights"
    ELSE "UnsupportedFormat"

\* lines 223-224: the group the weights are read from
weights_group(has_layer_names, has_model_weights) ==
    IF ~has_layer_names /\ has_model_weights THEN "model_weights" ELSE "root"

\* lines 205-207 and 211-213: load_weights_only(model, filepath, skip_mismatch=...)
archive_weights_call(path, skip_mismatch) ==
    Event("archive_weights", path, B2S(skip_mismatch), "-")

\* line 230: load_weights_from_hdf5_group(f, model)
by_position_call(path, group, skip_mismatch) ==
    Event("legacy_weights_by_position", path, "not_passed", group)

\* lines 226-228: load_weights_from_hdf5_group_by_name(f, model, skip_mismatch)
by_name_call(path, group, skip_mismatch) ==
    Event("legacy_weights_by_name", path, B2S(skip_mismatch), group)

\* lines 201-236: the trace, the outcome and the overwritten positions
load_weights_result(path, skip_mismatch, kwargs, has_h5py, has_layer_names, has_model_weights, f) ==
    LET d == weights_dispatch(path)
        by_name == "by_name" \in kwargs
        group == weights_group(has_layer_names, has_model_weights)
        opened == <<Event("h5_open", path, "r", "-")>>
        r == IF by_name
             THEN load_weights_from_hdf5_group_by_name(f, ModelShapes, skip_mismatch)
             ELSE load_weights_from_hdf5_group(f, ModelShapes)
    IN  IF d = "archive_weights"
        THEN IF kwargs # {}
             THEN [trace |-> <<>>, outcome |-> "InvalidArgument", applied |-> {}]
             ELSE [trace |-> <<archive_weights_call(path, skip_mismatch)>>,
                   outcome |-> "returned", applied |-> {}]
        ELSE IF d = "legacy_weights"
        THEN IF kwargs \ {"by_name"} # {}
             THEN [trace |-> <<>>, outcome |-> "InvalidArgument", applied |-> {}]
             ELSE IF ~has_h5py
             THEN [trace |-> <<>>, outcome |-> "MissingDependency", applied |-> {}]
             ELSE [trace |-> Append(opened,
                                IF by_name
                                THEN by_name_call(path, group, skip_mismatch)
                                ELSE by_position_call(path, group, skip_mismatch)),
                   outcome |-> r.outcome, applied |-> r.applied]
        ELSE [trace |-> <<>>, outcome |-> "UnsupportedFormat", applied |-> {}]

load_weights(p) ==
    /\ pc[p] = "idle"
    /\ \E name \in Names, skip_mismatch \in BOOLEAN, kwargs \in KwargSets,
          has_layer_names \in BOOLEAN, has_model_weights \in BOOLEAN,
          f \in [Layers -> Shapes] :
        LET path == Path("local", name)
            r == load_weights_result(path, skip_mismatch, kwargs, h5py,
                                     has_layer_names, has_model_weights, f)
        IN  /\ req' = [req EXCEPT ![p] =
                          [op |-> "load_weights", path |-> path,
                           skip_mismatch |-> skip_mismatch, kwargs |-> kwargs,
                           has_layer_names |-> has_layer_names,
                           has_model_weights |-> has_model_weights, f |-> f]]
            /\ trace' = [trace EXCEPT ![p] = r.trace]
            /\ outcome' = [outcome EXCEPT ![p] = r.outcome]
            /\ applied' = [applied EXCEPT ![p] = r.applied]
    /\ pc' = [pc EXCEPT ![p] = "done"]
    /\ UNCHANGED <<filepath, is_keras_zip, tmp, h5py>>

(***************************************************************************)
(* The caller takes the result; the slot's frame is gone                   *)
(***************************************************************************)
call_return(p) ==
    /\ pc[p] = "done"
    /\ pc' = [pc EXCEPT ![p] = "idle"]
    /\ req' = [req EXCEPT ![p] = NoReq]
    /\ filepath' = [filepath EXCEPT ![p] = NoPath]
    /\ is_keras_zip' = [is_keras_zip EXCEPT ![p] = FALSE]
    /\ trace' = [trace EXCEPT ![p] = <<>>]
    /\ outcome' = [outcome EXCEPT ![p] = "returned"]
    /\ applied' = [applied EXCEPT ![p] = {}]
    /\ UNCHANGED <<tmp, h5py>>

(***************************************************************************)
(* Specifications                                                          *)
(***************************************************************************)
\* Spec: one caller, calls made one after another (section 5 of the design:
\* every operation is synchronous from the caller's side).
Next ==
    \/ load_model_call(MainProc, Paths, Bytes)
    \/ load_model_copy(MainProc)
    \/ load_model_reprobe(MainProc)
    \/ load_model_dispatch(MainProc)
    \/ save_model(MainProc)
    \/ load_weights(MainProc)
    \/ call_return(MainProc)

Spec == Init /\ [][Next]_vars

\* SpecRace: two threads of one process, each calling load_model on files of
\* the two buckets; the steps of the two calls interleave freely.
RaceNames == {NameKeras, NameH5}
RacePaths == {Path(l, n) : l \in {"gsA", "gsB"}, n \in RaceNames}
RaceBytes == {"zip1", "zip2", "junk"}

NextRace ==
    \E p \in Proc :
        \/ load_model_call(p, RacePaths, RaceBytes)
        \/ load_model_copy(p)
        \/ load_model_reprobe(p)
        \/ load_model_dispatch(p)
        \/ call_return(p)

SpecRace == Init /\ [][NextRace]_vars

(***************************************************************************)
(* Properties                                                              *)
(***************************************************************************)
Done(p, op) == pc[p] = "done" /\ req[p].op = op

Kinds(p) == {trace[p][i].kind : i \in DOMAIN trace[p]}

CountKind(p, kind) == Cardinality({i \in DOMAIN trace[p] : trace[p][i].kind = kind})

\* a suffix outside {.keras, .weights.h5, .h5, .hdf5}
Unrecognized(path) ==
    /\ ~endswith(path, <<".keras">>)
    /\ ~endswith(path, <<".weights", ".h5">>)
    /\ ~endswith(path, <<".h5">>)
    /\ ~endswith(path, <<".hdf5">>)

FileSystemKinds ==
    {"copy", "archive_read", "legacy_read", "archive_write", "legacy_write"}

\* the call got past the argument checks of lines 55-78 and reached line 89
ReachedDispatch(p) ==
    /\ save_format_check(req[p].path, req[p].save_format) # "raise"
    /\ ~req[p].extra

\* C1: for a path with an unrecognized suffix, save_model (once at its
\* dispatch, line 89) and load_model end in the unsupported-format error, and
\* no copy into the temp directory, no backend write and no backend read is
\* made on the way.
C1_UnsupportedSuffixTouchesNothing ==
    \A p \in Proc :
        (/\ req[p].op \in {"save_model", "load_model"}
         /\ Unrecognized(req[p].path)
         /\ req[p].op = "save_model" => ReachedDispatch(p))
            => /\ Kinds(p) \cap FileSystemKinds = {}
               /\ pc[p] = "done" => outcome[p] = "UnsupportedFormat"

\* the source of a load_model call is a .keras path that holds no valid
\* container and, when it is remote, it can be copied
CorruptKerasSource(p) ==
    /\ req[p].op = "load_model"
    /\ endswith(req[p].path, <<".keras">>)
    /\ req[p].bytes \notin ZipBytes
    /\ ~(is_remote_path(req[p].path) /\ req[p].bytes = "absent")

\* C2: load_model on a .keras path whose bytes are not a valid container
\* (local, or remote and staged) ends in the corrupt-archive error, and at no
\* point calls the legacy backend's read or the archive backend's read.
C2_CorruptKerasNeverFallsBack ==
    \A p \in Proc :
        CorruptKerasSource(p)
            => /\ Kinds(p) \cap {"legacy_read", "archive_read"} = {}
               /\ pc[p] = "done" => outcome[p] = "CorruptArchive"

C2_Witness ==
    \E p \in Proc :
        /\ Done(p, "load_model")
        /\ CorruptKerasSource(p)
        /\ req[p].path = Path("gsA", NameKeras)
        /\ req[p].bytes = "junk"
        /\ "copy" \in Kinds(p)
        /\ tmp[NameKeras] = "junk"
        /\ outcome[p] = "CorruptArchive"

\* the overwrite guard of a finished save_model call on a .keras destination
PromptAnswers(p) ==
    {trace[p][i].arg : i \in {j \in DOMAIN trace[p] : trace[p][j].kind = "prompt"}}

OverwriteGuardHolds(p) ==
    /\ ("prompt" \in Kinds(p)) <=> (req[p].check = "yes" /\ ~req[p].overwrite)
    /\ CountKind(p, "prompt") <= 1
    /\ outcome[p] = "returned"
    /\ IF "false" \in PromptAnswers(p)
       THEN CountKind(p, "archive_write") = 0
       ELSE CountKind(p, "archive_write") = 1

\* C3: in save_model with a .keras destination (a call that reaches the
\* dispatch at line 89) the prompt is consulted exactly when the destination
\* exists and overwrite is false, a failing existence check counting as "does
\* not exist"; a "no" makes the call return normally with no archive write;
\* in every other case the archive backend's write is invoked exactly once.
C3_OverwriteGuard ==
    \A p \in Proc :
        (/\ Done(p, "save_model")
         /\ endswith(req[p].path, <<".keras">>)
         /\ ReachedDispatch(p))
            => OverwriteGuardHolds(p)

C3_Witness ==
    \E p \in Proc :
        /\ Done(p, "save_model")
        /\ endswith(req[p].path, <<".keras">>)
        /\ ReachedDispatch(p)
        /\ req[p].check = "yes"
        /\ ~req[p].overwrite
        /\ PromptAnswers(p) = {"false"}
        /\ outcome[p] = "returned"
        /\ "archive_write" \notin Kinds(p)

\* the format a save_format value names agrees with the path's extension
SaveFormatAgrees(save_format, path) ==
    \/ save_format = "keras" /\ endswith(path, <<".keras">>)
    \/ save_format = "h5" /\ endswith_h5(path)

BackendWrites == {"archive_write", "legacy_write"}

\* C4 as stated: a save_format value that disagrees with the path's extension
\* is a hard error raised before any backend write; a value that agrees is
\* accepted with a deprecation warning.
C4_SaveFormatComparedWithExtension ==
    \A p \in Proc :
        (Done(p, "save_model") /\ req[p].save_format # "absent")
            => IF SaveFormatAgrees(req[p].save_format, req[p].path)
               THEN /\ "warning" \in Kinds(p)
                    /\ outcome[p] # "DeprecatedArgument"
               ELSE /\ outcome[p] = "DeprecatedArgument"
                    /\ Kinds(p) \cap BackendWrites = {}

\* C4 amended: the value of save_format is never compared with the extension.
\* Whatever it is, the call is accepted with a deprecation warning when the
\* path ends in .keras, .h5 or .hdf5, and is a hard error raised before any
\* backend write when the path ends in none of them.
C4_SaveFormatCheckedAgainstSuffixOnly ==
    \A p \in Proc :
        (Done(p, "save_model") /\ req[p].save_format # "absent")
            => IF endswith(req[p].path, <<".keras">>) \/ endswith_h5(req[p].path)
               THEN /\ trace[p] # <<>>
                    /\ trace[p][1] = Event("warning", req[p].path,
                                           "save_format_deprecated",
                                           req[p].save_format)
                    /\ outcome[p] # "DeprecatedArgument"
               ELSE /\ outcome[p] = "DeprecatedArgument"
                    /\ trace[p] = <<>>

C4_Witness ==
    \E p \in Proc :
        /\ Done(p, "save_model")
        /\ req[p].save_format = "h5"
        /\ req[p].path = Path("local", NameKeras)
        /\ outcome[p] = "returned"
        /\ Kinds(p) = {"warning", "archive_write"}

\* C5: the backend write save_model selects receives the caller's
\* include_optimizer value, on the .keras route and on the .h5/.hdf5 route.
C5_IncludeOptimizerForwarded ==
    \A p \in Proc :
        Done(p, "save_model")
            => \A i \in DOMAIN trace[p] :
                   trace[p][i].kind \in BackendWrites
                       => trace[p][i].arg = B2S(req[p].include_optimizer)

\* C6: load_weights on a .h5/.hdf5 path, matching by position: with
\* skip_mismatch a mismatched position is skipped and the following positions
\* are still loaded; without it the mismatch is fatal.
C6_SkipMismatchHonouredByPosition ==
    \A p \in Proc :
        (/\ Done(p, "load_weights")
         /\ "legacy_weights_by_position" \in Kinds(p)
         /\ req[p].f # ModelShapes)
            => IF req[p].skip_mismatch
               THEN /\ outcome[p] = "returned"
                    /\ applied[p] = {i \in Layers : req[p].f[i] = ModelShapes[i]}
               ELSE outcome[p] = "ShapeMismatch"

\* what a finished load_model call came to: the backend that read the file,
\* or the error raised
LoadResult(p) ==
    IF outcome[p] # "returned" THEN outcome[p]
    ELSE IF "archive_read" \in Kinds(p) THEN "archive_read"
    ELSE "legacy_read"

\* load_model on a local path of that basename holding those bytes
LocalLoadResult(name, bytes) ==
    load_dispatch(Path("local", name), probe_is_keras_zip(Path("local", name), bytes))

\* C7: load_model on a remote, non-directory path holding a valid container
\* (one the probe of line 154 has not confirmed already) copies it into the
\* temp directory under the same basename, and comes to what load_model comes
\* to on a local path of that basename with those bytes.
C7_RemoteLoadEqualsLocalLoad ==
    \A p \in Proc :
        (/\ Done(p, "load_model")
         /\ is_remote_path(req[p].path)
         /\ req[p].bytes \in ZipBytes
         /\ ~probe_is_keras_zip(req[p].path, req[p].bytes))
            => /\ "copy" \in Kinds(p)
               /\ tmp[req[p].path.name] = req[p].bytes
               /\ LoadResult(p) = LocalLoadResult(req[p].path.name, req[p].bytes)

\* C8: once load_model has staged its source, the temp directory holds the
\* source's bytes under its basename, whatever was there before, and every
\* backend read of that call is given the staged path, not the remote one.
C8_ReadsAfterStagingUseStagedPath ==
    \A p \in Proc :
        (req[p].op = "load_model" /\ "copy" \in Kinds(p))
            => /\ tmp[req[p].path.name] = req[p].bytes
               /\ \A i \in DOMAIN trace[p] :
                      trace[p][i].kind \in {"archive_read", "legacy_read"}
                          => trace[p][i].path = local_path(req[p].path)

\* two calls that have both copied, from two different remote files of one
\* basename, and have not returned yet
BothStaged(p, q) ==
    /\ p # q
    /\ req[p].op = "load_model" /\ req[q].op = "load_model"
    /\ req[p].path # req[q].path
    /\ req[p].path.name = req[q].path.name
    /\ "copy" \in Kinds(p) /\ "copy" \in Kinds(q)

\* C9: nothing keeps two concurrent load_model calls on different remote
\* files of one basename apart: both stage to the same temp path, each copy
\* overwrites what is there, so the path holds the bytes of whichever call
\* copied last; the state where one call's read got the other file's bytes is
\* C9_Witness.
C9_SameBasenameSharesStagedPath ==
    \A p, q \in Proc :
        BothStaged(p, q)
            => /\ local_path(req[p].path) = local_path(req[q].path)
               /\ tmp[local_path(req[p].path).name] \in {req[p].bytes, req[q].bytes}

C9_Witness ==
    \E p, q \in Proc :
        /\ BothStaged(p, q)
        /\ pc[p] = "done"
        /\ req[p].bytes # req[q].bytes
        /\ \E i \in DOMAIN trace[p] :
               /\ trace[p][i].kind = "archive_read"
               /\ trace[p][i].path = local_path(req[p].path)
               /\ trace[p][i].arg = req[q].bytes

\* C10: a .weights.h5 path is a weights-only archive for every operation:
\* load_weights hands it to the archive backend's weights-only reader with
\* skip_mismatch, and save_model and load_model never call the legacy
\* backend's write or read on it.
C10_WeightsH5NeverLegacy ==
    \A p \in Proc :
        (pc[p] = "done" /\ req[p].op # "none"
         /\ endswith(req[p].path, <<".weights", ".h5">>))
            => IF req[p].op = "load_weights"
               THEN req[p].kwargs = {}
                        => trace[p] = <<Event("archive_weights", req[p].path,
                                              B2S(req[p].skip_mismatch), "-")>>
               ELSE Kinds(p) \cap {"legacy_write", "legacy_read"} = {}

====
